---- MODULE Spec2Model ----
(***************************************************************************)
(* Model of the kinase reliability pilot.  The SAR generator               *)
(* (src/generate_sar.py): the rule functions that turn one target's        *)
(* metrics into a Structural Audit Report, the validation of a report, and *)
(* the batch loop of main() that writes one report file per target.  The   *)
(* inference runner (src/run_inference.py): the loop that writes one       *)
(* prediction file per target and the execution log.  The report compiler  *)
(* (src/compile_reports.py): the completeness and validity checks and the  *)
(* summary, calibration and provenance reports.                            *)
(*                                                                         *)
(* Numbers.  Every real quantity of the program (pLDDT, PAE, RMSD,         *)
(* contact overlap, the random factors) is an integer count of thousandths:*)
(* 2.0 A is 2000, pLDDT 90 is 90000.  A product with 1.5 is compared as    *)
(* 2*x > 3*y.                                                              *)
(*                                                                         *)
(* Python values.  A dict is a function whose domain is the set of keys    *)
(* present.  A value the code tests for None, for membership in the list   *)
(* of gate values or with isinstance is boxed with its Python type: None,  *)
(* Str(s), Float(x); the other strings and numbers stand for themselves.   *)
(* A formatted string is the sequence of its pieces; the numbers a         *)
(* description embeds are left out of the text.  Timestamps are left out   *)
(* of the records.  Arrays are non-empty and hold finite numbers.          *)
(***************************************************************************)
EXTENDS Integers, Sequences, FiniteSets, TLC

VARIABLES
    \* one call of a function of generate_sar.py or compile_reports.py on
    \* inputs chosen by a caller
    fn, args, ret,
    \* generate_sar.py main(): the batch run
    strict_mode, targets, idx, sar_files, success_count, validation_errors,
    stdout, pc,
    \* run_inference.py main(): the run over the same manifest
    inference_i, output_dir, execution_log, inference_success_count, inference_pc

callVars == <<fn, args, ret>>
mainVars == <<strict_mode, targets, idx, sar_files, success_count,
              validation_errors, stdout, pc>>
inferenceVars == <<inference_i, output_dir, execution_log, inference_success_count,
                   inference_pc>>
vars == <<fn, args, ret, strict_mode, targets, idx, sar_files, success_count,
          validation_errors, stdout, pc, inference_i, output_dir, execution_log,
          inference_success_count, inference_pc>>

----------------------------------------------------------------------------
(* Python values *)

None == [type |-> "NoneType"]
Str(s) == [type |-> "str", val |-> s]
Float(x) == [type |-> "float", val |-> x]

\* isinstance(v, (int, float))
IsNumber(v) == v.type = "float"

\* `key not in d or d[key] is None`
MissingOrNone(d, key) == key \notin DOMAIN d \/ d[key] = None

\* d.get(key, default)
Get(d, key, default) == IF key \in DOMAIN d THEN d[key] ELSE default

\* the elements of a sequence
Range(s) == {s[k] : k \in DOMAIN s}

RECURSIVE SumSeq(_)
SumSeq(s) == IF s = <<>> THEN 0 ELSE Head(s) + SumSeq(Tail(s))

RECURSIVE Flatten(_)
Flatten(rows) == IF rows = <<>> THEN <<>> ELSE Head(rows) \o Flatten(Tail(rows))

\* float(np.mean(a)) of a non-empty array, any shape
Mean(a) == SumSeq(a) \div Len(a)

\* the integer square root: the largest r in lo..hi with r*r <= x
RECURSIVE SqrtIn(_, _, _)
SqrtIn(x, lo, hi) ==
    IF lo >= hi THEN lo
    ELSE LET mid == (lo + hi + 1) \div 2
         IN IF mid * mid <= x THEN SqrtIn(x, mid, hi) ELSE SqrtIn(x, lo, mid - 1)

Sqrt(x) == SqrtIn(x, 0, 40000)

\* round(x, 2) and round(x, 3) on thousandths: to the nearest multiple of
\* `unit`, a tie going to the even multiple
Round(x, unit) ==
    LET q == x \div unit
        r == x % unit
    IN IF 2 * r > unit \/ (2 * r = unit /\ q % 2 = 1) THEN (q + 1) * unit
       ELSE q * unit

----------------------------------------------------------------------------
(* compute_rmsd_stub: u is the value np.random.uniform(1.5, 4.5) draws *)

SqDist(p, g) ==
    (p[1] - g[1]) * (p[1] - g[1]) + (p[2] - g[2]) * (p[2] - g[2])
        + (p[3] - g[3]) * (p[3] - g[3])

Min(a, b) == IF a <= b THEN a ELSE b

compute_rmsd_stub(pred_coords, gt_coords, u) ==
    IF gt_coords = None THEN u
    ELSE LET min_len == Min(Len(pred_coords), Len(gt_coords))
             pred == SubSeq(pred_coords, 1, min_len)
             gt == SubSeq(gt_coords, 1, min_len)
         IN Sqrt(Mean([k \in 1..min_len |-> SqDist(pred[k], gt[k])]))

----------------------------------------------------------------------------
(* classify_confidence *)

\* classify_confidence with the overall band low only when both signals are low
classify_confidence_both_low(plddt_mean, pae_mean) ==
    LET plddt_bin == IF plddt_mean > 90000 THEN "high"
                     ELSE IF plddt_mean > 70000 THEN "medium"
                     ELSE "low"
        pae_bin == IF pae_mean < 5000 THEN "high"
                   ELSE IF pae_mean < 10000 THEN "medium"
                   ELSE "low"
        overall == IF plddt_bin = "high" /\ pae_bin = "high" THEN "high"
                   ELSE IF plddt_bin = "low" /\ pae_bin = "low" THEN "low"
                   ELSE "medium"
    IN [plddt_bin |-> plddt_bin, pae_bin |-> pae_bin,
        overall_confidence |-> overall]

\* classify_confidence with the boundaries 90 and 5 on the other side
classify_confidence_inclusive(plddt_mean, pae_mean) ==
    LET plddt_bin == IF plddt_mean >= 90000 THEN "high"
                     ELSE IF plddt_mean > 70000 THEN "medium"
                     ELSE "low"
        pae_bin == IF pae_mean <= 5000 THEN "high"
                   ELSE IF pae_mean < 10000 THEN "medium"
                   ELSE "low"
        overall == IF plddt_bin = "high" /\ pae_bin = "high" THEN "high"
                   ELSE IF plddt_bin = "low" \/ pae_bin = "low" THEN "low"
                   ELSE "medium"
    IN [plddt_bin |-> plddt_bin, pae_bin |-> pae_bin,
        overall_confidence |-> overall]

classify_confidence(plddt_mean, pae_mean) ==
    LET plddt_bin == IF plddt_mean > 90000 THEN "high"
                     ELSE IF plddt_mean > 70000 THEN "medium"
                     ELSE "low"
        pae_bin == IF pae_mean < 5000 THEN "high"
                   ELSE IF pae_mean < 10000 THEN "medium"
                   ELSE "low"
        overall == IF plddt_bin = "high" /\ pae_bin = "high" THEN "high"
                   ELSE IF plddt_bin = "low" \/ pae_bin = "low" THEN "low"
                   ELSE "medium"
    IN [plddt_bin |-> plddt_bin, pae_bin |-> pae_bin,
        overall_confidence |-> overall]

----------------------------------------------------------------------------
(* determine_expected_error_range *)

\* determine_expected_error_range with the medium and the low range exchanged
determine_expected_error_range_swapped(confidence) ==
    LET overall == confidence["overall_confidence"]
    IN IF overall = "high" THEN
           [rmsd_min |-> Float(500), rmsd_max |-> Float(2000),
            rationale |-> Str(<<"High confidence (pLDDT>90, PAE<5) suggests low expected error">>)]
       ELSE IF overall = "medium" THEN
           [rmsd_min |-> Float(3000), rmsd_max |-> Float(8000),
            rationale |-> Str(<<"Low confidence (pLDDT<70 or PAE>10) suggests high expected error">>)]
       ELSE
           [rmsd_min |-> Float(1500), rmsd_max |-> Float(4000),
            rationale |-> Str(<<"Medium confidence suggests moderate expected error range">>)]

determine_expected_error_range(confidence) ==
    LET overall == confidence["overall_confidence"]
    IN IF overall = "high" THEN
           [rmsd_min |-> Float(500), rmsd_max |-> Float(2000),
            rationale |-> Str(<<"High confidence (pLDDT>90, PAE<5) suggests low expected error">>)]
       ELSE IF overall = "medium" THEN
           [rmsd_min |-> Float(1500), rmsd_max |-> Float(4000),
            rationale |-> Str(<<"Medium confidence suggests moderate expected error range">>)]
       ELSE
           [rmsd_min |-> Float(3000), rmsd_max |-> Float(8000),
            rationale |-> Str(<<"Low confidence (pLDDT<70 or PAE>10) suggests high expected error">>)]

----------------------------------------------------------------------------
(* classify_failure: rmsd_ligand is Float(x) or Str("N/A") *)

\* classify_failure with the range check exclusive at the upper bound
classify_failure_exclusive(rmsd_global, rmsd_ligand, plddt_mean, pae_mean, expected_range, ligand_present) ==
    LET rmsd_max == expected_range["rmsd_max"].val
    IN IF rmsd_global < rmsd_max THEN
           [class |-> "N/A",
            description |-> <<"Prediction within expected error range">>]
       ELSE IF plddt_mean > 90000 /\ pae_mean < 5000
               /\ 2 * rmsd_global > 3 * rmsd_max THEN
           [class |-> "Class A", description |-> <<"Overconfidence artifact">>]
       ELSE IF ligand_present /\ IsNumber(rmsd_ligand)
               /\ 2 * rmsd_ligand.val > 3 * rmsd_global THEN
           [class |-> "Class B", description |-> <<"Ligand pose failure">>]
       ELSE IF rmsd_global > 10000 THEN
           [class |-> "Class C", description |-> <<"Potential symmetry/assembly failure">>]
       ELSE [class |-> "Unknown", description |-> <<"Unmapped failure mode">>]

\* classify_failure with the Class C rule tried before the Class B rule
classify_failure_c_before_b(rmsd_global, rmsd_ligand, plddt_mean, pae_mean, expected_range, ligand_present) ==
    LET rmsd_max == expected_range["rmsd_max"].val
    IN IF rmsd_global <= rmsd_max THEN
           [class |-> "N/A",
            description |-> <<"Prediction within expected error range">>]
       ELSE IF plddt_mean > 90000 /\ pae_mean < 5000
               /\ 2 * rmsd_global > 3 * rmsd_max THEN
           [class |-> "Class A", description |-> <<"Overconfidence artifact">>]
       ELSE IF rmsd_global > 10000 THEN
           [class |-> "Class C", description |-> <<"Potential symmetry/assembly failure">>]
       ELSE IF ligand_present /\ IsNumber(rmsd_ligand)
               /\ 2 * rmsd_ligand.val > 3 * rmsd_global THEN
           [class |-> "Class B", description |-> <<"Ligand pose failure">>]
       ELSE [class |-> "Unknown", description |-> <<"Unmapped failure mode">>]

classify_failure(rmsd_global, rmsd_ligand, plddt_mean, pae_mean, expected_range, ligand_present) ==
    LET rmsd_max == expected_range["rmsd_max"].val
    IN IF rmsd_global <= rmsd_max THEN
           [class |-> "N/A",
            description |-> <<"Prediction within expected error range">>]
       ELSE IF plddt_mean > 90000 /\ pae_mean < 5000
               /\ 2 * rmsd_global > 3 * rmsd_max THEN
           [class |-> "Class A",
            description |-> <<"Overconfidence artifact: High model confidence but RMSD exceeds expected range">>]
       ELSE IF ligand_present /\ IsNumber(rmsd_ligand)
               /\ 2 * rmsd_ligand.val > 3 * rmsd_global THEN
           [class |-> "Class B",
            description |-> <<"Ligand pose failure: Ligand pocket RMSD significantly exceeds global RMSD">>]
       ELSE IF rmsd_global > 10000 THEN
           [class |-> "Class C",
            description |-> <<"Potential symmetry/assembly failure: Extremely high RMSD suggests structural misalignment">>]
       ELSE
           [class |-> "Unknown",
            description |-> <<"Unmapped failure mode: RMSD exceeds expected range but doesn't match known failure patterns">>]

----------------------------------------------------------------------------
(* determine_decision_gate *)

\* determine_decision_gate returning a gate value outside the enumeration
determine_decision_gate_lowercase(rmsd_global, expected_range, failure_class, confidence) ==
    LET rmsd_max == expected_range["rmsd_max"].val
    IN IF rmsd_global <= rmsd_max THEN "ACCEPT"
       ELSE IF failure_class \in {"Class A", "Class C"}
               \/ rmsd_global > rmsd_max * 2 THEN "REJECT"
       ELSE "review"

\* determine_decision_gate that looks at the deviation only
determine_decision_gate_ignores_class(rmsd_global, expected_range, failure_class, confidence) ==
    LET rmsd_max == expected_range["rmsd_max"].val
    IN IF rmsd_global <= rmsd_max THEN "ACCEPT"
       ELSE IF rmsd_global > rmsd_max * 2 THEN "REJECT"
       ELSE "REVIEW"

\* determine_decision_gate rejecting from twice the upper bound on
determine_decision_gate_from_twice(rmsd_global, expected_range, failure_class, confidence) ==
    LET rmsd_max == expected_range["rmsd_max"].val
    IN IF rmsd_global <= rmsd_max THEN "ACCEPT"
       ELSE IF failure_class \in {"Class A", "Class C"}
               \/ rmsd_global >= rmsd_max * 2 THEN "REJECT"
       ELSE "REVIEW"

determine_decision_gate(rmsd_global, expected_range, failure_class, confidence) ==
    LET rmsd_max == expected_range["rmsd_max"].val
    IN IF rmsd_global <= rmsd_max THEN "ACCEPT"
       ELSE IF failure_class \in {"Class A", "Class C"}
               \/ rmsd_global > rmsd_max * 2 THEN "REJECT"
       ELSE "REVIEW"

----------------------------------------------------------------------------
(* generate_recommended_action *)

\* generate_recommended_action without the REVIEW branch of class Unknown
generate_recommended_action_no_unknown(decision_gate, failure_taxonomy, pdb_id) ==
    IF decision_gate = "ACCEPT" THEN
        <<"Structure ", pdb_id, " passes quality criteria. Proceed with downstream analysis.">>
    ELSE IF decision_gate = "REVIEW" THEN
        IF failure_taxonomy["class"] = "Class B" THEN
            <<"Manual review recommended for ", pdb_id, ": Ligand binding pose shows elevated error. Verify active site geometry and ligand interactions.">>
        ELSE
            <<"Manual review recommended for ", pdb_id, ": ">> \o failure_taxonomy["description"]
    ELSE
        IF failure_taxonomy["class"] = "Class A" THEN
            <<"Reject ", pdb_id, ": Overconfidence artifact detected. Model confidence metrics unreliable for this target. Consider alternative modeling approaches.">>
        ELSE IF failure_taxonomy["class"] = "Class C" THEN
            <<"Reject ", pdb_id, ": Potential symmetry/assembly failure. Verify oligomeric state and symmetry operators before use.">>
        ELSE
            <<"Reject ", pdb_id, ": Error exceeds acceptable thresholds. Do not use for downstream analysis without significant refinement.">>

generate_recommended_action(decision_gate, failure_taxonomy, pdb_id) ==
    IF decision_gate = "ACCEPT" THEN
        <<"Structure ", pdb_id, " passes quality criteria. Proceed with downstream analysis.">>
    ELSE IF decision_gate = "REVIEW" THEN
        LET failure_class == failure_taxonomy["class"]
        IN IF failure_class = "Class B" THEN
               <<"Manual review recommended for ", pdb_id, ": Ligand binding pose shows elevated error. Verify active site geometry and ligand interactions.">>
           ELSE IF failure_class = "Unknown" THEN
               <<"Manual review required for ", pdb_id, ": Elevated error detected but failure mode unclear. Expert structural analysis needed.">>
           ELSE
               <<"Manual review recommended for ", pdb_id, ": ">> \o failure_taxonomy["description"]
    ELSE
        LET failure_class == failure_taxonomy["class"]
        IN IF failure_class = "Class A" THEN
               <<"Reject ", pdb_id, ": Overconfidence artifact detected. Model confidence metrics unreliable for this target. Consider alternative modeling approaches.">>
           ELSE IF failure_class = "Class C" THEN
               <<"Reject ", pdb_id, ": Potential symmetry/assembly failure. Verify oligomeric state and symmetry operators before use.">>
           ELSE
               <<"Reject ", pdb_id, ": Error exceeds acceptable thresholds. Do not use for downstream analysis without significant refinement.">>

----------------------------------------------------------------------------
(* validate_sar.  The result is what the caller gets: the exception raised *)
(* (None when the call returns) and the warning printed to stderr.         *)

required_fields == <<"expected_error_range", "recommended_action", "decision_gate">>

range_subfields == <<"rmsd_min", "rmsd_max", "rationale">>

gate_values == {Str("ACCEPT"), Str("REVIEW"), Str("REJECT")}

SubfieldName(subfield) ==
    CASE subfield = "rmsd_min" -> "expected_error_range.rmsd_min"
      [] subfield = "rmsd_max" -> "expected_error_range.rmsd_max"
      [] OTHER -> "expected_error_range.rationale"

\* missing_fields without the check of the range's subfields
missing_fields_no_subfields(sar) ==
    LET top == SelectSeq(required_fields, LAMBDA field : MissingOrNone(sar, field))
        enum == IF ~MissingOrNone(sar, "decision_gate")
                   /\ sar["decision_gate"] \notin gate_values
                THEN <<"decision_gate (invalid value)">>
                ELSE <<>>
    IN top \o enum

missing_fields(sar) ==
    LET top == SelectSeq(required_fields, LAMBDA field : MissingOrNone(sar, field))
        sub == IF ~MissingOrNone(sar, "expected_error_range")
               THEN LET err_range == sar["expected_error_range"]
                        m == SelectSeq(range_subfields,
                                       LAMBDA subfield : MissingOrNone(err_range, subfield))
                    IN [k \in 1..Len(m) |-> SubfieldName(m[k])]
               ELSE <<>>
        enum == IF ~MissingOrNone(sar, "decision_gate")
                   /\ sar["decision_gate"] \notin gate_values
                THEN <<"decision_gate (invalid value)">>
                ELSE <<>>
    IN top \o sub \o enum

validate_sar(sar, strict) ==
    LET missing == missing_fields(sar)
    IN IF missing # <<>> /\ strict THEN
           [exception |-> [type |-> "SARValidationError",
                           msg |-> <<"ERROR_SAR_INCOMPLETE: Missing required fields: ">> \o missing],
            stderr |-> <<>>]
       ELSE IF missing # <<>> THEN
           [exception |-> None,
            stderr |-> <<"WARNING: SAR validation failed: Missing fields: ">> \o missing]
       ELSE [exception |-> None, stderr |-> <<>>]

----------------------------------------------------------------------------
(* generate_sar.  u_rmsd, u_ligand and u_contact are the values the three  *)
(* np.random.uniform calls draw.  The result is the exception raised (None *)
(* when the call returns) and the SAR returned.                            *)

KeyError(key) == [type |-> "KeyError", msg |-> <<key>>]

build_sar(target, prediction, ground_truth, u_rmsd, u_ligand, u_contact) ==
    LET pdb_id == target["pdb_id"]
        plddt_mean == Mean(prediction["plddt"])
        pae_mean == Mean(Flatten(prediction["pae"]))
        rmsd_global == compute_rmsd_stub(
            prediction["coordinates"],
            IF ground_truth # None THEN ground_truth["coordinates"] ELSE None,
            u_rmsd)
        ligand_present == Get(target, "ligand_present", FALSE)
        rmsd_ligand_pocket == IF ligand_present
                              THEN Float((rmsd_global * u_ligand) \div 1000)
                              ELSE Str("N/A")
        contact_map_overlap == u_contact
        confidence_assessment == classify_confidence(plddt_mean, pae_mean)
        expected_error_range == determine_expected_error_range(confidence_assessment)
        failure_taxonomy == classify_failure(rmsd_global, rmsd_ligand_pocket,
                                             plddt_mean, pae_mean,
                                             expected_error_range, ligand_present)
        decision_gate == determine_decision_gate(rmsd_global, expected_error_range,
                                                 failure_taxonomy["class"],
                                                 confidence_assessment)
        recommended_action == generate_recommended_action(decision_gate,
                                                          failure_taxonomy, pdb_id)
    IN [pdb_id |-> pdb_id,
        sar_version |-> "1.0",
        metrics |-> [rmsd_global |-> Round(rmsd_global, 10),
                     rmsd_ligand_pocket |->
                         IF IsNumber(rmsd_ligand_pocket)
                         THEN Float(Round(rmsd_ligand_pocket.val, 10))
                         ELSE rmsd_ligand_pocket,
                     contact_map_overlap |-> Round(contact_map_overlap, 1),
                     plddt_mean |-> Round(plddt_mean, 10),
                     pae_mean |-> Round(pae_mean, 10)],
        confidence_assessment |-> confidence_assessment,
        expected_error_range |-> expected_error_range,
        recommended_action |-> Str(recommended_action),
        decision_gate |-> Str(decision_gate),
        failure_taxonomy |-> failure_taxonomy,
        provenance |-> [model_version |-> Get(prediction, "model_version", "unknown"),
                        seed |-> Get(prediction, "seed", -1),
                        recycles |-> Get(prediction, "recycles", -1),
                        stub_output |-> Get(prediction, "stub_output", FALSE)]]

generate_sar(target, prediction, ground_truth, u_rmsd, u_ligand, u_contact) ==
    IF "plddt" \notin DOMAIN prediction THEN
        [exception |-> KeyError("plddt"), sar |-> None]
    ELSE IF "pae" \notin DOMAIN prediction THEN
        [exception |-> KeyError("pae"), sar |-> None]
    ELSE IF "coordinates" \notin DOMAIN prediction THEN
        [exception |-> KeyError("coordinates"), sar |-> None]
    ELSE [exception |-> None,
          sar |-> build_sar(target, prediction, ground_truth, u_rmsd, u_ligand, u_contact)]

----------------------------------------------------------------------------
(* load_ground_truth: gt_file is the content of <pdb_id>_ground_truth.json,*)
(* None when the file does not exist; rand_coords is what np.random.randn  *)
(* draws for the stand-in.                                                 *)

load_ground_truth(pdb_id, gt_file, rand_coords) ==
    IF gt_file = None THEN [pdb_id |-> pdb_id, coordinates |-> rand_coords]
    ELSE gt_file

----------------------------------------------------------------------------
(* main(): one iteration of the loop over the targets.  The outcome of the *)
(* iteration is the SAR file written (None when none is), the increment of *)
(* success_count, the entry appended to validation_errors (None when none  *)
(* is) and whether sys.exit(1) is called.                                  *)

ErrorEntry(pdb_id, exception) == [pdb_id |-> pdb_id, error |-> exception.msg]

\* lines 422-446: validate the SAR, write it, print its gate, count it; the
\* handlers of SARValidationError and of the other exceptions.  Printing
\* sar['decision_gate'] after the file is written raises KeyError on a SAR
\* without the key, which the second handler records
validate_and_write(pdb_id, sar, strict) ==
    LET v == validate_sar(sar, strict)
    IN IF v.exception # None THEN
           [sar_file |-> None, success |-> 0,
            error |-> ErrorEntry(pdb_id, v.exception), exit |-> strict]
       ELSE IF "decision_gate" \notin DOMAIN sar THEN
           [sar_file |-> sar, success |-> 0,
            error |-> ErrorEntry(pdb_id, KeyError("decision_gate")), exit |-> strict]
       ELSE [sar_file |-> sar, success |-> 1, error |-> None, exit |-> FALSE]

\* loop_body whose handler of the other exceptions does not exit in strict mode
loop_body_no_exit(target, pred_file, gt_file, rand_coords, u_rmsd, u_ligand, u_contact, strict) ==
    LET pdb_id == target["pdb_id"]
    IN IF pred_file = None THEN
           [sar_file |-> None, success |-> 0,
            error |-> ErrorEntry(pdb_id, [type |-> "FileNotFoundError",
                                          msg |-> <<"Prediction not found: ", pdb_id>>]),
            exit |-> FALSE]
       ELSE LET ground_truth == load_ground_truth(pdb_id, gt_file, rand_coords)
                g == generate_sar(target, pred_file, ground_truth,
                                  u_rmsd, u_ligand, u_contact)
            IN IF g.exception # None THEN
                   [sar_file |-> None, success |-> 0,
                    error |-> ErrorEntry(pdb_id, g.exception), exit |-> FALSE]
               ELSE validate_and_write(pdb_id, g.sar, strict)

\* loop_body that exits on a failure in lenient mode too
loop_body_exits_in_lenient(target, pred_file, gt_file, rand_coords, u_rmsd, u_ligand, u_contact, strict) ==
    LET out == loop_body_no_exit(target, pred_file, gt_file, rand_coords,
                                 u_rmsd, u_ligand, u_contact, strict)
    IN [out EXCEPT !.exit = (out.error # None)]

\* loop_body that passes over a target without a prediction file, recording
\* nothing
loop_body_skips_missing(target, pred_file, gt_file, rand_coords, u_rmsd, u_ligand, u_contact, strict) ==
    IF pred_file = None THEN
        [sar_file |-> None, success |-> 0, error |-> None, exit |-> FALSE]
    ELSE loop_body_no_exit(target, pred_file, gt_file, rand_coords,
                           u_rmsd, u_ligand, u_contact, strict)

\* lines 404-446: pred_file is the content of <pdb_id>_prediction.json, None
\* when the file does not exist
loop_body(target, pred_file, gt_file, rand_coords, u_rmsd, u_ligand, u_contact, strict) ==
    LET pdb_id == target["pdb_id"]
    IN IF pred_file = None THEN
           [sar_file |-> None, success |-> 0,
            error |-> ErrorEntry(pdb_id, [type |-> "FileNotFoundError",
                                          msg |-> <<"Prediction not found: ", pdb_id>>]),
            exit |-> strict]
       ELSE LET ground_truth == load_ground_truth(pdb_id, gt_file, rand_coords)
                g == generate_sar(target, pred_file, ground_truth,
                                  u_rmsd, u_ligand, u_contact)
            IN IF g.exception # None THEN
                   [sar_file |-> None, success |-> 0,
                    error |-> ErrorEntry(pdb_id, g.exception), exit |-> strict]
               ELSE validate_and_write(pdb_id, g.sar, strict)

----------------------------------------------------------------------------
(* Bounds and input sets *)

\* the longest manifest of a batch run
MaxTargets == 2

\* the first targets of the accepted manifest (scripts/generate_manifest.py),
\* with the two keys the SAR generator reads
AcceptedTargets ==
    <<[pdb_id |-> "8ABC", ligand_present |-> TRUE],
      [pdb_id |-> "8DEF", ligand_present |-> TRUE],
      [pdb_id |-> "8GHI", ligand_present |-> FALSE],
      [pdb_id |-> "8JKL", ligand_present |-> TRUE],
      [pdb_id |-> "8MNO", ligand_present |-> TRUE]>>

PlddtValues == {60000, 70000, 70001, 80000, 90000, 90001, 95000}
PaeValues == {3000, 4999, 5000, 7000, 9999, 10000, 12000}
PlddtEdge == {80000, 90000, 90001}
PaeEdge == {4999, 5000, 7000}

\* around each range's upper bound, 1.5 times it, twice it, and 10.0
RmsdValues == {1000, 2000, 2001, 3000, 3001, 4000, 4001, 5000, 6000, 6001,
               8000, 8001, 10000, 10001, 12000, 12001, 16000, 16001}

\* a ligand-pocket deviation around 1.5 times the global one, or "N/A"
LigandValues(rmsd_global) ==
    {Str("N/A")} \cup {Float((rmsd_global * k) \div 1000) : k \in {800, 1500, 1501, 2000}}

Bands == {"high", "medium", "low"}
Confidences == [plddt_bin : Bands, pae_bin : Bands, overall_confidence : Bands]
Ranges == {determine_expected_error_range([overall_confidence |-> b]) : b \in Bands}
FailureClasses == {"N/A", "Class A", "Class B", "Class C", "Unknown"}
Taxonomies == {[class |-> c, description |-> <<"description of ", c>>] : c \in FailureClasses}
Gates == {"ACCEPT", "REVIEW", "REJECT"}

\* a dict given as a record whose absent keys hold Absent
Absent == [type |-> "absent"]
MkDict(d) == [k \in {key \in DOMAIN d : d[key] # Absent} |-> d[k]]

RangeInputs ==
    {MkDict([rmsd_min |-> lo, rmsd_max |-> hi, rationale |-> why]) :
        lo \in {Absent, None, Float(1500)},
        hi \in {Absent, None, Float(4000)},
        why \in {Absent, None, Str(<<"rationale">>)}}

\* the records validate_sar is given: each required field absent, None or set
SarInputs ==
    {MkDict([expected_error_range |-> range, recommended_action |-> action,
             decision_gate |-> gate]) :
        range \in {Absent, None} \cup RangeInputs,
        action \in {Absent, None, Str(<<"action">>)},
        gate \in {Absent, None, Str("ACCEPT"), Str("REVIEW"), Str("REJECT"), Str("MAYBE")}}

PredCoords == <<<<0, 0, 0>>, <<1000, 1000, 1000>>>>

\* coordinates at distance d from PredCoords in every atom
GtCoords(d) == <<<<d, 0, 0>>, <<1000, 1000, 1000 + d>>>>

Prediction(plddt, pae) ==
    [plddt |-> plddt, pae |-> pae, coordinates |-> PredCoords,
     model_version |-> "af3_stub", seed |-> 42, recycles |-> 3, stub_output |-> TRUE]

PlddtArrays == {<<96000, 94000>>, <<95000, 85000>>, <<85000, 75000>>,
                <<60000, 80000>>, <<50000>>}
PaeMatrices == {<<<<2000, 4000>>, <<4000, 2000>>>>, <<<<5000>>>>, <<<<6000, 8000>>>>,
                <<<<10000>>>>, <<<<12000>>>>}

Predictions == {Prediction(p, e) : p \in PlddtArrays, e \in PaeMatrices}

\* a prediction file without one of the keys generate_sar reads
Without(d, key) == [k \in DOMAIN d \ {key} |-> d[k]]
Malformed ==
    {Without(Prediction(<<85000, 75000>>, <<<<6000, 8000>>>>), key)
        : key \in {"plddt", "pae", "coordinates"}}

GtDistances == {1000, 2000, 2004, 3001, 5000, 9000, 12000, 17000}
GroundTruths ==
    {[pdb_id |-> "gt", coordinates |-> GtCoords(d)] : d \in GtDistances}
        \cup {[pdb_id |-> "gt", coordinates |-> GtCoords(5000) \o <<<<0, 0, 0>>>>]}

TargetInputs ==
    {[pdb_id |-> id] : id \in {"8ABC", "8DEF"}}
        \cup {[pdb_id |-> id, ligand_present |-> b] : id \in {"8ABC", "8DEF"}, b \in BOOLEAN}

\* what the three np.random.uniform calls can draw: uniform(1.5, 4.5),
\* uniform(0.8, 1.5), uniform(0.6, 0.95); the upper end is never drawn
URmsd == {1500, 4499}
ULigand == {800, 1499}
UContact == {600, 949}

\* the files of a batch run
BatchPredictions ==
    {Prediction(<<96000, 94000>>, <<<<2000, 4000>>, <<4000, 2000>>>>),
     Prediction(<<85000, 75000>>, <<<<6000, 8000>>>>),
     Prediction(<<50000>>, <<<<12000>>>>)}
BatchMalformed == {Without(Prediction(<<85000, 75000>>, <<<<6000, 8000>>>>), "plddt")}
BatchCoords == {GtCoords(d) : d \in {1000, 5000, 12000}}
BatchGroundTruths == {[pdb_id |-> "gt", coordinates |-> c] : c \in BatchCoords}
\* what np.random.randn draws when a ground-truth file is missing
BatchRandCoords == {GtCoords(5000), GtCoords(12000) \o <<<<0, 0, 0>>>>}

\* the target lists of a batch run: up to MaxTargets consecutive targets
Manifests ==
    UNION {{[k \in 1..n |-> AcceptedTargets[first + k - 1]] :
               first \in 1..(Len(AcceptedTargets) - n + 1)} :
           n \in 0..Min(MaxTargets, Len(AcceptedTargets))}

----
(* Initial state: no call made, main() about to enter its loop *)

\* run_inference.py is not running
InferenceOff ==
    /\ inference_pc = "off"
    /\ inference_i = 0
    /\ output_dir = <<>>
    /\ execution_log = <<>>
    /\ inference_success_count = 0

Init ==
    /\ InferenceOff
    /\ fn = "none"
    /\ args = <<>>
    /\ ret = None
    /\ strict_mode \in BOOLEAN
    /\ targets \in Manifests
    /\ idx = 0
    /\ sar_files = <<>>
    /\ success_count = 0
    /\ validation_errors = <<>>
    /\ stdout = <<>>
    /\ pc = "loop"

\* the state of main() while a single function is called
InitCall ==
    /\ InferenceOff
    /\ fn = "none"
    /\ args = <<>>
    /\ ret = None
    /\ strict_mode = FALSE
    /\ targets = <<>>
    /\ idx = 0
    /\ sar_files = <<>>
    /\ success_count = 0
    /\ validation_errors = <<>>
    /\ stdout = <<>>
    /\ pc = "loop"

----------------------------------------------------------------------------
(* Calls of the single functions *)

CallClassifyConfidence ==
    /\ fn = "none"
    /\ \E plddt_mean \in PlddtValues, pae_mean \in PaeValues :
        /\ fn' = "classify_confidence"
        /\ args' = [plddt_mean |-> plddt_mean, pae_mean |-> pae_mean]
        /\ ret' = classify_confidence(plddt_mean, pae_mean)
    /\ UNCHANGED <<mainVars, inferenceVars>>

CallDetermineExpectedErrorRange ==
    /\ fn = "none"
    /\ \E confidence \in Confidences :
        /\ fn' = "determine_expected_error_range"
        /\ args' = [confidence |-> confidence]
        /\ ret' = determine_expected_error_range(confidence)
    /\ UNCHANGED <<mainVars, inferenceVars>>

CallClassifyFailure ==
    /\ fn = "none"
    /\ \E rmsd_global \in RmsdValues, plddt_mean \in PlddtEdge, pae_mean \in PaeEdge,
          expected_range \in Ranges, ligand_present \in BOOLEAN :
        \E rmsd_ligand \in LigandValues(rmsd_global) :
            /\ fn' = "classify_failure"
            /\ args' = [rmsd_global |-> rmsd_global, rmsd_ligand |-> rmsd_ligand,
                        plddt_mean |-> plddt_mean, pae_mean |-> pae_mean,
                        expected_range |-> expected_range,
                        ligand_present |-> ligand_present]
            /\ ret' = classify_failure(rmsd_global, rmsd_ligand, plddt_mean, pae_mean,
                                       expected_range, ligand_present)
    /\ UNCHANGED <<mainVars, inferenceVars>>

CallDetermineDecisionGate ==
    /\ fn = "none"
    /\ \E rmsd_global \in RmsdValues, expected_range \in Ranges,
          failure_class \in FailureClasses, overall \in Bands :
        LET confidence == [plddt_bin |-> overall, pae_bin |-> overall,
                           overall_confidence |-> overall]
        IN /\ fn' = "determine_decision_gate"
           /\ args' = [rmsd_global |-> rmsd_global, expected_range |-> expected_range,
                       failure_class |-> failure_class, confidence |-> confidence]
           /\ ret' = determine_decision_gate(rmsd_global, expected_range,
                                             failure_class, confidence)
    /\ UNCHANGED <<mainVars, inferenceVars>>

CallGenerateRecommendedAction ==
    /\ fn = "none"
    /\ \E decision_gate \in Gates, failure_taxonomy \in Taxonomies,
          pdb_id \in {"8ABC", "8DEF"} :
        /\ fn' = "generate_recommended_action"
        /\ args' = [decision_gate |-> decision_gate,
                    failure_taxonomy |-> failure_taxonomy, pdb_id |-> pdb_id]
        /\ ret' = generate_recommended_action(decision_gate, failure_taxonomy, pdb_id)
    /\ UNCHANGED <<mainVars, inferenceVars>>

CallValidateSar ==
    /\ fn = "none"
    /\ \E sar \in SarInputs, strict \in BOOLEAN :
        /\ fn' = "validate_sar"
        /\ args' = [sar |-> sar, strict_mode |-> strict]
        /\ ret' = validate_sar(sar, strict)
    /\ UNCHANGED <<mainVars, inferenceVars>>

CallGenerateSar ==
    /\ fn = "none"
    /\ \E target \in TargetInputs, prediction \in Predictions \cup Malformed,
          ground_truth \in {None} \cup GroundTruths,
          u_rmsd \in URmsd, u_ligand \in ULigand, u_contact \in UContact :
        /\ fn' = "generate_sar"
        /\ args' = [target |-> target, prediction |-> prediction,
                    ground_truth |-> ground_truth]
        /\ ret' = generate_sar(target, prediction, ground_truth,
                               u_rmsd, u_ligand, u_contact)
    /\ UNCHANGED <<mainVars, inferenceVars>>

\* the end of the loop body of main() on a SAR of any shape
CallValidateAndWrite ==
    /\ fn = "none"
    /\ \E sar \in SarInputs, strict \in BOOLEAN :
        /\ fn' = "validate_and_write"
        /\ args' = [sar |-> sar, strict_mode |-> strict]
        /\ ret' = validate_and_write("8ABC", sar, strict)
    /\ UNCHANGED <<mainVars, inferenceVars>>

NextCall ==
    \/ CallClassifyConfidence
    \/ CallDetermineExpectedErrorRange
    \/ CallClassifyFailure
    \/ CallDetermineDecisionGate
    \/ CallGenerateRecommendedAction
    \/ CallValidateSar
    \/ CallGenerateSar
    \/ CallValidateAndWrite

SpecCall == InitCall /\ [][NextCall]_vars

----------------------------------------------------------------------------
(* main(): the loop over the targets and the end of the run *)

WriteFile(files, name, content) ==
    [f \in DOMAIN files \cup {name} |-> IF f = name THEN content ELSE files[f]]

\* lines 403-446: one target
ProcessTarget ==
    /\ pc = "loop"
    /\ idx < Len(targets)
    /\ \E pred_file \in {None} \cup BatchPredictions \cup BatchMalformed,
          gt_file \in {None} \cup BatchGroundTruths,
          u_ligand \in ULigand, u_contact \in UContact :
         \E rand_coords \in IF gt_file = None THEN BatchRandCoords ELSE {<<>>} :
            \* load_ground_truth never returns None: uniform(1.5, 4.5) is not drawn
            \E out \in {loop_body(targets[idx + 1], pred_file, gt_file, rand_coords,
                                  0, u_ligand, u_contact, strict_mode)} :
               /\ idx' = idx + 1
               /\ stdout' = Append(stdout, targets[idx + 1]["pdb_id"])
               /\ sar_files' = IF out.sar_file = None THEN sar_files
                               ELSE WriteFile(sar_files, targets[idx + 1]["pdb_id"],
                                              out.sar_file)
               /\ success_count' = success_count + out.success
               /\ validation_errors' = IF out.error = None THEN validation_errors
                                       ELSE Append(validation_errors, out.error)
               /\ pc' = IF out.exit THEN "exit1" ELSE "loop"
    /\ UNCHANGED <<strict_mode, targets, callVars, inferenceVars>>

\* lines 448-457: the summary and the exit status
Finish ==
    /\ pc = "loop"
    /\ idx = Len(targets)
    /\ pc' = IF validation_errors # <<>> /\ strict_mode THEN "exit1" ELSE "exit0"
    /\ UNCHANGED <<strict_mode, targets, idx, sar_files, success_count,
                   validation_errors, stdout, callVars, inferenceVars>>

Next ==
    \/ ProcessTarget
    \/ Finish

Spec == Init /\ [][Next]_vars

----------------------------------------------------------------------------
(* run_inference.py: the stub prediction, one target, and the run *)

\* sum(ord(c) for c in pdb_id) of the ids of the accepted manifest
PdbHash(pdb_id) ==
    CASE pdb_id = "8ABC" -> 254
      [] pdb_id = "8DEF" -> 263
      [] pdb_id = "8GHI" -> 272
      [] pdb_id = "8JKL" -> 281
      [] pdb_id = "8MNO" -> 290

\* lines 28-60: draws holds what the generator seeded with seed + pdb_hash
\* gives: standard normal coordinates and the positions in [0, 1) of the
\* confidence values, all in thousandths
run_alphafold3_stub(pdb_id, seed, recycles, draws) ==
    LET pdb_hash == PdbHash(pdb_id)
    IN [pdb_id |-> pdb_id,
        n_residues |-> 280 + (pdb_hash % 50),
        coordinates |-> [k \in 1..Len(draws.coordinates) |->
                            [c \in 1..3 |-> draws.coordinates[k][c] * 10]],
        plddt |-> [k \in 1..Len(draws.plddt) |->
                      50000 + (pdb_hash % 3) * 15000 + draws.plddt[k] * 20],
        pae |-> [r \in 1..Len(draws.pae) |->
                    [c \in 1..Len(draws.pae[r]) |->
                        2000 + (pdb_hash % 3) * 5000 + draws.pae[r][c] * 5]],
        model_version |-> "af3_stub",
        seed |-> seed,
        recycles |-> recycles,
        stub_output |-> TRUE]

\* process_target that logs the successes only
process_target_logs_success(target, seed, recycles, draws, write_ok, log) ==
    LET pdb_id == target["pdb_id"]
        result == run_alphafold3_stub(pdb_id, seed, recycles, draws)
    IN IF write_ok THEN
           [ok |-> TRUE, output_file |-> result,
            execution_log |-> Append(log, [pdb_id |-> pdb_id, status |-> "success",
                                           output_file |-> <<pdb_id, "_prediction.json">>])]
       ELSE [ok |-> FALSE, output_file |-> None, execution_log |-> log]

\* lines 63-118: write_ok is whether <pdb_id>_prediction.json can be written
\* (open raises OSError when it cannot); the outcome is the value returned,
\* the file written (None when none is) and the execution log
process_target(target, seed, recycles, draws, write_ok, log) ==
    LET pdb_id == target["pdb_id"]
        result == run_alphafold3_stub(pdb_id, seed, recycles, draws)
    IN IF write_ok THEN
           [ok |-> TRUE, output_file |-> result,
            execution_log |-> Append(log, [pdb_id |-> pdb_id, status |-> "success",
                                           output_file |-> <<pdb_id, "_prediction.json">>])]
       ELSE [ok |-> FALSE, output_file |-> None,
             execution_log |-> Append(log, [pdb_id |-> pdb_id, status |-> "error",
                                            error |-> "OSError"])]

\* what the seeded generator may give for a target
StubDraws ==
    {[coordinates |-> <<<<0, 0, 0>>, <<100, -100, 100>>>>,
      plddt |-> <<0, 999>>, pae |-> <<<<0, 999>>>>],
     [coordinates |-> <<<<1000, 0, -1000>>>>,
      plddt |-> <<500, 700>>, pae |-> <<<<300>>>>]}

\* run_inference.py starts on a manifest; generate_sar.py is not running
InitInference ==
    /\ fn = "none"
    /\ args = <<>>
    /\ ret = None
    /\ strict_mode = FALSE
    /\ targets \in Manifests
    /\ idx = 0
    /\ sar_files = <<>>
    /\ success_count = 0
    /\ validation_errors = <<>>
    /\ stdout = <<>>
    /\ pc = "off"
    /\ inference_pc = "loop"
    /\ inference_i = 0
    /\ output_dir = <<>>
    /\ execution_log = <<>>
    /\ inference_success_count = 0

\* lines 181-184: one target; the prediction file is kept under its pdb_id
InferenceProcessTarget ==
    /\ inference_pc = "loop"
    /\ inference_i < Len(targets)
    /\ \E draws \in StubDraws, write_ok \in BOOLEAN :
         \E out \in {process_target(targets[inference_i + 1], 42, 3, draws, write_ok,
                                    execution_log)} :
            /\ inference_i' = inference_i + 1
            /\ execution_log' = out.execution_log
            /\ output_dir' = IF out.output_file = None THEN output_dir
                             ELSE WriteFile(output_dir, targets[inference_i + 1]["pdb_id"],
                                            out.output_file)
            /\ inference_success_count' = inference_success_count
                                          + (IF out.ok THEN 1 ELSE 0)
    /\ UNCHANGED <<inference_pc, mainVars, callVars>>

\* lines 186-211: the provenance file with the execution log, the exit status
InferenceFinish ==
    /\ inference_pc = "loop"
    /\ inference_i = Len(targets)
    /\ output_dir' = WriteFile(output_dir, "execution_provenance.json",
                               [job_type |-> "inference", seed |-> 42, recycles |-> 3,
                                targets_total |-> Len(targets),
                                targets_success |-> inference_success_count,
                                targets_failed |-> Len(targets) - inference_success_count,
                                execution_log |-> execution_log])
    /\ inference_pc' = IF inference_success_count < Len(targets) THEN "exit1" ELSE "exit0"
    /\ UNCHANGED <<inference_i, execution_log, inference_success_count, mainVars, callVars>>

NextRuns ==
    \/ ProcessTarget
    \/ Finish
    \/ InferenceProcessTarget
    \/ InferenceFinish

\* a run of either program over a manifest
SpecRuns == (Init \/ InitInference) /\ [][NextRuns]_vars

----------------------------------------------------------------------------
(* compile_reports.py: the checks and the reports over the SARs of a run *)

\* lines 86-102: the entries one SAR adds to invalid_sars
invalid_entries(sar) ==
    LET pdb_id == Get(sar, "pdb_id", "unknown")
    IN (IF MissingOrNone(sar, "decision_gate")
        THEN <<<<pdb_id, ": missing decision_gate">>>>
        ELSE IF sar["decision_gate"] \notin gate_values
        THEN <<<<pdb_id, ": invalid decision_gate value">>>>
        ELSE <<>>)
       \o (IF MissingOrNone(sar, "expected_error_range")
           THEN <<<<pdb_id, ": missing expected_error_range">>>>
           ELSE <<>>)
       \o (IF MissingOrNone(sar, "recommended_action")
           THEN <<<<pdb_id, ": missing recommended_action">>>>
           ELSE <<>>)

\* lines 79-110: result is the value returned, invalid_sars what is printed
validate_sar_validity(sars) ==
    LET invalid_sars == Flatten([k \in 1..Len(sars) |-> invalid_entries(sars[k])])
    IN [result |-> invalid_sars = <<>>, invalid_sars |-> invalid_sars]

\* the SAR lists validate_sar_validity is given: every single record, and
\* pairs of a complete record with an incomplete one
SarPicks ==
    {MkDict([expected_error_range |-> range, recommended_action |-> Str(<<"action">>),
             decision_gate |-> gate]) :
        range \in {MkDict([rmsd_min |-> Float(1500), rmsd_max |-> hi,
                           rationale |-> Str(<<"rationale">>)]) :
                      hi \in {Absent, Float(4000)}},
        gate \in {None, Str("REVIEW")}}

SarLists ==
    {<<>>} \cup {<<sar>> : sar \in SarInputs}
           \cup {<<first, second>> : first \in SarPicks, second \in SarPicks}

CallValidateSarValidity ==
    /\ fn = "none"
    /\ \E sars \in SarLists :
        /\ fn' = "validate_sar_validity"
        /\ args' = [sars |-> sars]
        /\ ret' = validate_sar_validity(sars)
    /\ UNCHANGED <<mainVars, inferenceVars>>

\* the values of a list in ascending order
RECURSIVE Sorted(_)
Sorted(values) ==
    IF values = <<>> THEN <<>>
    ELSE LET rest == Sorted(Tail(values))
             below == SelectSeq(rest, LAMBDA v : v <= Head(values))
             above == SelectSeq(rest, LAMBDA v : v > Head(values))
         IN below \o <<Head(values)>> \o above

\* float(np.std(values)): the square root of the mean squared deviation from
\* the mean
Std(values) ==
    LET mean == Mean(values)
    IN Sqrt(Mean([k \in 1..Len(values) |-> (values[k] - mean) * (values[k] - mean)]))

\* float(np.median(values))
Median(values) ==
    LET s == Sorted(values)
        n == Len(s)
    IN IF n % 2 = 1 THEN s[(n + 1) \div 2] ELSE (s[n \div 2] + s[n \div 2 + 1]) \div 2

\* lines 190-197: the statistics of one non-empty bin
bin_statistics(rmsd_values) ==
    [n_samples |-> Len(rmsd_values),
     rmsd_mean |-> Mean(rmsd_values),
     rmsd_std |-> Std(rmsd_values),
     rmsd_min |-> Sorted(rmsd_values)[1],
     rmsd_max |-> Sorted(rmsd_values)[Len(rmsd_values)],
     rmsd_median |-> Median(rmsd_values)]

\* lines 180-183 on one SAR: the KeyError raised, None when the deviation is
\* appended to a bin
bin_error(sar) ==
    IF "confidence_assessment" \notin DOMAIN sar THEN KeyError("confidence_assessment")
    ELSE IF "overall_confidence" \notin DOMAIN sar["confidence_assessment"]
    THEN KeyError("overall_confidence")
    ELSE IF "metrics" \notin DOMAIN sar THEN KeyError("metrics")
    ELSE IF "rmsd_global" \notin DOMAIN sar["metrics"] THEN KeyError("rmsd_global")
    ELSE IF sar["confidence_assessment"]["overall_confidence"]
               \notin {"high", "medium", "low"}
    THEN KeyError(sar["confidence_assessment"]["overall_confidence"])
    ELSE None

\* confidence_bin leaving out the first SAR of the band
confidence_bin_without_first(sars, conf_level) ==
    LET members == SelectSeq(sars, LAMBDA sar :
                       sar["confidence_assessment"]["overall_confidence"] = conf_level)
    IN [k \in 1..(Len(members) - 1) |-> members[k + 1]["metrics"]["rmsd_global"]]

\* lines 178-183: the deviations of the SARs of one band, in the order of sars
confidence_bin(sars, conf_level) ==
    LET members == SelectSeq(sars, LAMBDA sar :
                       sar["confidence_assessment"]["overall_confidence"] = conf_level)
    IN [k \in 1..Len(members) |-> members[k]["metrics"]["rmsd_global"]]

\* generate_calibration_report passing from two populated bins on
generate_calibration_report_two_bins(sars) ==
    LET populated == {conf_level \in {"high", "medium", "low"} :
                         confidence_bin(sars, conf_level) # <<>>}
        bins_with_data == Cardinality(populated)
    IN [exception |-> None,
        calibration_report |->
            [version |-> "1.0", total_targets |-> Len(sars),
             confidence_bins |-> bins_with_data,
             calibration_data |->
                 [conf_level \in populated |->
                     bin_statistics(confidence_bin(sars, conf_level))]],
        stderr |-> IF bins_with_data < 2 THEN <<"WARNING: Calibration has only ",
                                                bins_with_data, " confidence bins (< 3)">>
                   ELSE <<>>,
        result |-> bins_with_data >= 2]

\* lines 170-227: the exception raised (None when the call returns), the
\* report written to calibration_report.json (without its time stamp and its
\* fixed interpretation texts), the warning printed and the value returned
generate_calibration_report(sars) ==
    LET errors == SelectSeq([k \in 1..Len(sars) |-> bin_error(sars[k])],
                            LAMBDA e : e # None)
    IN IF errors # <<>> THEN
           [exception |-> errors[1], calibration_report |-> None, stderr |-> <<>>,
            result |-> None]
       ELSE LET populated == {conf_level \in {"high", "medium", "low"} :
                                 confidence_bin(sars, conf_level) # <<>>}
                bins_with_data == Cardinality(populated)
            IN [exception |-> None,
                calibration_report |->
                    [version |-> "1.0", total_targets |-> Len(sars),
                     confidence_bins |-> bins_with_data,
                     calibration_data |->
                         [conf_level \in populated |->
                             bin_statistics(confidence_bin(sars, conf_level))]],
                stderr |-> IF bins_with_data < 3
                           THEN <<"WARNING: Calibration has only ", bins_with_data,
                                  " confidence bins (< 3)">>
                           ELSE <<>>,
                result |-> bins_with_data >= 3]

\* lines 36-58: sar_dir maps the pdb_id of each <pdb_id>.json it holds to the
\* SAR in the file
load_sars(sar_dir, manifest) ==
    LET present == SelectSeq(manifest["targets"], LAMBDA target : target["pdb_id"] \in DOMAIN sar_dir)
        absent == SelectSeq(manifest["targets"], LAMBDA target : target["pdb_id"] \notin DOMAIN sar_dir)
    IN [sars |-> [k \in 1..Len(present) |-> sar_dir[present[k]["pdb_id"]]],
        missing |-> [k \in 1..Len(absent) |-> absent[k]["pdb_id"]]]

\* lines 61-76
validate_completeness(sars, manifest) ==
    LET expected_count == Len(manifest["targets"])
        actual_count == Len(sars)
    IN IF actual_count < expected_count THEN FALSE ELSE TRUE

\* the place of a pdb_id in the order of the strings; the ids of the accepted
\* manifest are listed in that order
IdRank(pdb_id) ==
    IF \E k \in 1..Len(AcceptedTargets) : AcceptedTargets[k]["pdb_id"] = pdb_id
    THEN CHOOSE k \in 1..Len(AcceptedTargets) : AcceptedTargets[k]["pdb_id"] = pdb_id
    ELSE Len(AcceptedTargets) + 1

\* sorted(sars, key=lambda x: x["pdb_id"]), stable
RECURSIVE SortedByPdbId(_)
SortedByPdbId(sars) ==
    IF sars = <<>> THEN <<>>
    ELSE LET rest == SortedByPdbId(Tail(sars))
             rank == IdRank(Head(sars)["pdb_id"])
             before == SelectSeq(rest, LAMBDA sar : IdRank(sar["pdb_id"]) < rank)
             after == SelectSeq(rest, LAMBDA sar : IdRank(sar["pdb_id"]) >= rank)
         IN before \o <<Head(sars)>> \o after

\* the first exception generate_summary raises on a SAR, None when it raises
\* none: the keys it reads at lines 117, 120 and 153-159
summary_error(sar) ==
    IF "decision_gate" \notin DOMAIN sar THEN KeyError("decision_gate")
    ELSE IF "failure_taxonomy" \notin DOMAIN sar THEN KeyError("failure_taxonomy")
    ELSE IF "class" \notin DOMAIN sar["failure_taxonomy"] THEN KeyError("class")
    ELSE IF "pdb_id" \notin DOMAIN sar THEN KeyError("pdb_id")
    ELSE IF "metrics" \notin DOMAIN sar THEN KeyError("metrics")
    ELSE IF "rmsd_global" \notin DOMAIN sar["metrics"] THEN KeyError("rmsd_global")
    ELSE IF "plddt_mean" \notin DOMAIN sar["metrics"] THEN KeyError("plddt_mean")
    ELSE IF "confidence_assessment" \notin DOMAIN sar THEN KeyError("confidence_assessment")
    ELSE IF "overall_confidence" \notin DOMAIN sar["confidence_assessment"]
    THEN KeyError("overall_confidence")
    ELSE None

\* count / len(sars) * 100 formatted with .1f, in tenths of a percent
Percentage(count, total) == (2000 * count + total) \div (2 * total)

\* lines 113-167: the exception raised (None when the call returns) and the
\* content of SAR_SUMMARY.md: the counts, the percentages and the rows
generate_summary(sars) ==
    LET errors == SelectSeq([k \in 1..Len(sars) |-> summary_error(sars[k])],
                            LAMBDA e : e # None)
    IN IF errors # <<>> THEN [exception |-> errors[1], summary |-> None]
       ELSE IF Len(sars) = 0 THEN
           [exception |-> [type |-> "ZeroDivisionError", msg |-> <<"division by zero">>],
            summary |-> None]
       ELSE
           [exception |-> None,
            summary |->
               [total_targets |-> Len(sars),
                decision_counts |->
                    [gate \in {"ACCEPT", "REVIEW", "REJECT"} |->
                        LET count == Len(SelectSeq(sars, LAMBDA sar :
                                                   sar["decision_gate"] = Str(gate)))
                        IN [count |-> count, percentage |-> Percentage(count, Len(sars))]],
                failure_counts |->
                    [class \in {"N/A", "Class A", "Class B", "Class C", "Unknown"} |->
                        Len(SelectSeq(sars, LAMBDA sar : sar["failure_taxonomy"]["class"] = class))],
                rows |->
                    LET ordered == SortedByPdbId(sars)
                    IN [k \in 1..Len(ordered) |->
                           <<ordered[k]["pdb_id"], ordered[k]["decision_gate"],
                             ordered[k]["failure_taxonomy"]["class"],
                             Round(ordered[k]["metrics"]["rmsd_global"], 10),
                             Round(ordered[k]["metrics"]["plddt_mean"], 100),
                             ordered[k]["confidence_assessment"]["overall_confidence"]>>]]]

\* lines 230-284: the content of execution_provenance.json without its time
\* stamp; hash_match is whether the manifest's hash is the one given
generate_execution_provenance(hash_match) ==
    [job_type |-> "compile_reports",
     version |-> "1.0",
     manifest_verification |-> [hash_match |-> hash_match],
     locked_parameters |-> [seed |-> 42, recycles |-> 3, schema_version |-> "1.0"],
     outputs |-> <<"SAR_SUMMARY.md", "calibration_report.json",
                   "execution_provenance.json">>]

\* an exception no handler catches ends the process with status 1
Uncaught(exception, written) ==
    [exit_code |-> 1, exception |-> exception, written |-> written,
     stdout |-> <<>>, stderr |-> <<"Traceback">>]

\* lines 358-376 of main: the three reports and the exit status
generate_reports(sars, hash_match) ==
    LET s == generate_summary(sars)
        c == generate_calibration_report(sars)
        with_summary == [name \in {"SAR_SUMMARY.md"} |-> s.summary]
        with_calibration == WriteFile(with_summary, "calibration_report.json",
                                      c.calibration_report)
        with_provenance == WriteFile(with_calibration, "execution_provenance.json",
                                     generate_execution_provenance(hash_match))
    IN IF s.exception # None THEN Uncaught(s.exception, <<>>)
       ELSE IF c.exception # None THEN Uncaught(c.exception, with_summary)
       ELSE IF c.result THEN
           [exit_code |-> 0, exception |-> None, written |-> with_provenance,
            stdout |-> <<"PASS: All validation criteria met">>, stderr |-> c.stderr]
       ELSE
           [exit_code |-> 1, exception |-> None, written |-> with_provenance,
            stdout |-> <<"WARNING: Calibration has fewer than 3 confidence bins">>,
            stderr |-> c.stderr]

\* main that compiles the reports from the SARs it finds
compile_reports_main_unchecked(manifest, sar_dir, hash_match) ==
    generate_reports(load_sars(sar_dir, manifest).sars, hash_match)

\* lines 287-376: main on the manifest and the SAR directory.  The
\* outcome is the exit status, the exception that ended the run (None when
\* none did), the report files written, and the last message on stdout and
\* the messages on stderr
compile_reports_main(manifest, sar_dir, hash_match) ==
    LET loaded == load_sars(sar_dir, manifest)
        validity == validate_sar_validity(loaded.sars)
        all_passed == validate_completeness(loaded.sars, manifest) /\ validity.result
    IN IF loaded.missing # <<>> THEN
           [exit_code |-> 1, exception |-> None, written |-> <<>>, stdout |-> <<>>,
            stderr |-> <<"ERROR: Missing SARs for targets: ">> \o loaded.missing]
       ELSE IF ~all_passed THEN
           [exit_code |-> 1, exception |-> None, written |-> <<>>, stdout |-> <<>>,
            stderr |-> <<"FAIL: SAR validity check failed">> \o validity.invalid_sars
                       \o <<"FAIL: Validation checks failed">>]
       ELSE generate_reports(loaded.sars, hash_match)

\* the longest list of SARs the reports are compiled from
MaxSars == 3

\* the SARs generate_sar writes for a target: one per band and deviation
ReportSars(target) ==
    {generate_sar(target, prediction, ground_truth, 0, 1000, 800).sar :
        prediction \in BatchPredictions, ground_truth \in BatchGroundTruths}

\* the SARs of the first n targets of the accepted manifest, one each
RECURSIVE SarsOf(_)
SarsOf(n) ==
    IF n = 0 THEN {<<>>}
    ELSE {Append(sars, sar) : sars \in SarsOf(n - 1), sar \in ReportSars(AcceptedTargets[n])}

CalibrationLists == UNION {SarsOf(n) : n \in 0..Min(MaxSars, Len(AcceptedTargets))}

CallGenerateCalibrationReport ==
    /\ fn = "none"
    /\ \E sars \in CalibrationLists :
        /\ fn' = "generate_calibration_report"
        /\ args' = [sars |-> sars]
        /\ ret' = generate_calibration_report(sars)
    /\ UNCHANGED <<mainVars, inferenceVars>>

\* what <pdb_id>.json of a target may hold: a SAR of generate_sar of each
\* band, within its range or far outside, or such a SAR with decision_gate
\* null, without expected_error_range.rmsd_max, without failure_taxonomy,
\* without metrics, or with an overall_confidence that is none of the bands
SarFiles(target) ==
    LET built == {generate_sar(target, prediction, ground_truth, 0, 1000, 800).sar :
                     prediction \in BatchPredictions,
                     ground_truth \in {[pdb_id |-> "gt", coordinates |-> GtCoords(d)] :
                                          d \in {1000, 12000}}}
        sar == generate_sar(target, Prediction(<<85000, 75000>>, <<<<6000, 8000>>>>),
                            [pdb_id |-> "gt", coordinates |-> GtCoords(1000)],
                            0, 1000, 800).sar
    IN built \cup {[sar EXCEPT !["decision_gate"] = None],
                   [sar EXCEPT !["expected_error_range"] = Without(@, "rmsd_max")],
                   Without(sar, "failure_taxonomy"),
                   Without(sar, "metrics"),
                   [sar EXCEPT !["confidence_assessment"]["overall_confidence"] =
                                   "very_high"]}

\* the SAR directories over the first n targets of the accepted manifest: for
\* each target no file, or one of its files
RECURSIVE SarDirs(_)
SarDirs(n) ==
    IF n = 0 THEN {[name \in {} |-> None]}
    ELSE LET target == AcceptedTargets[n]
         IN UNION {{dir} \cup {WriteFile(dir, target["pdb_id"], sar) : sar \in SarFiles(target)} :
                      dir \in SarDirs(n - 1)}

\* the manifests the reports are compiled for: the first targets of the
\* accepted manifest
ReportManifests ==
    {[targets |-> SubSeq(AcceptedTargets, 1, n)] : n \in 0..Min(MaxSars, Len(AcceptedTargets))}

CallCompileReportsMain ==
    /\ fn = "none"
    /\ \E manifest \in ReportManifests, hash_match \in BOOLEAN :
        \E sar_dir \in SarDirs(Len(manifest["targets"])) :
            /\ fn' = "compile_reports.main"
            /\ args' = [manifest |-> manifest, sar_dir |-> sar_dir,
                        hash_match |-> hash_match]
            /\ ret' = compile_reports_main(manifest, sar_dir, hash_match)
    /\ UNCHANGED <<mainVars, inferenceVars>>

NextReports ==
    \/ CallValidateSarValidity
    \/ CallGenerateCalibrationReport
    \/ CallCompileReportsMain

SpecReports == InitCall /\ [][NextReports]_vars

----------------------------------------------------------------------------
(* The claims *)

UpperBound(expected_range) == expected_range["rmsd_max"].val

\* C1: determine_decision_gate returns exactly one of ACCEPT, REVIEW, REJECT:
\* ACCEPT if and only if the deviation is at most the range's upper bound;
\* otherwise REJECT when the class is Class A or Class C or the deviation is
\* above twice the upper bound; otherwise REVIEW.
C1_DecisionGate ==
    fn = "determine_decision_gate" =>
        LET d == args.rmsd_global
            ub == UpperBound(args.expected_range)
            rejects == args.failure_class \in {"Class A", "Class C"} \/ d > 2 * ub
        IN /\ ret \in Gates
           /\ ret = "ACCEPT" <=> d <= ub
           /\ (d > ub /\ rejects) => ret = "REJECT"
           /\ (d > ub /\ ~rejects) => ret = "REVIEW"

\* a deviation of exactly twice the upper bound with class Unknown is reviewed
C1_Witness ==
    /\ fn = "determine_decision_gate"
    /\ args.rmsd_global = 2 * UpperBound(args.expected_range)
    /\ args.failure_class = "Unknown"
    /\ ret = "REVIEW"

\* C2: classify_failure returns class N/A if and only if the deviation is at
\* most the range's upper bound (the bound included), whatever the confidence
\* means, the ligand-pocket deviation and the ligand flag are.
C2_WithinRangeIsNA ==
    fn = "classify_failure" =>
        (ret["class"] = "N/A" <=> args.rmsd_global <= UpperBound(args.expected_range))

\* the deviation equals the upper bound, every other input points at a failure
C2_Witness ==
    /\ fn = "classify_failure"
    /\ args.rmsd_global = UpperBound(args.expected_range)
    /\ args.plddt_mean > 90000
    /\ args.pae_mean < 5000
    /\ args.ligand_present
    /\ IsNumber(args.rmsd_ligand)
    /\ 2 * args.rmsd_ligand.val > 3 * args.rmsd_global
    /\ ret["class"] = "N/A"

MeetsClassA(a) ==
    /\ a.plddt_mean > 90000
    /\ a.pae_mean < 5000
    /\ 2 * a.rmsd_global > 3 * UpperBound(a.expected_range)

MeetsClassB(a) ==
    /\ a.ligand_present
    /\ a.rmsd_ligand.type = "float"
    /\ 2 * a.rmsd_ligand.val > 3 * a.rmsd_global

MeetsClassC(a) == a.rmsd_global > 10000

\* C3: classify_failure ends in one of the five classes, and above the upper
\* bound the first matching rule wins: Class A, else Class B, else Class C,
\* else Unknown.
C3_FirstMatchWins ==
    fn = "classify_failure" =>
        /\ ret["class"] \in FailureClasses
        /\ args.rmsd_global > UpperBound(args.expected_range) =>
              ret["class"] = IF MeetsClassA(args) THEN "Class A"
                             ELSE IF MeetsClassB(args) THEN "Class B"
                             ELSE IF MeetsClassC(args) THEN "Class C"
                             ELSE "Unknown"

\* an input meeting the Class B and the Class C conditions is Class B
C3_Witness ==
    /\ fn = "classify_failure"
    /\ args.rmsd_global > UpperBound(args.expected_range)
    /\ ~MeetsClassA(args)
    /\ MeetsClassB(args)
    /\ MeetsClassC(args)
    /\ ret["class"] = "Class B"

\* C4: the overall band of classify_confidence is one of high, medium, low; it
\* is low whenever either band is low, high only when both bands are high, and
\* medium otherwise: it is decided by the two bands alone.
C4_OverallBand ==
    fn = "classify_confidence" =>
        LET p == ret["plddt_bin"]
            e == ret["pae_bin"]
            o == ret["overall_confidence"]
        IN /\ o \in Bands
           /\ (p = "low" \/ e = "low") => o = "low"
           /\ o = "high" <=> (p = "high" /\ e = "high")
           /\ (p # "low" /\ e # "low" /\ ~(p = "high" /\ e = "high")) => o = "medium"

\* one band high, the other low: the overall band is low
C4_Witness ==
    /\ fn = "classify_confidence"
    /\ ret["plddt_bin"] = "high"
    /\ ret["pae_bin"] = "low"
    /\ ret["overall_confidence"] = "low"

C6_ErrorRangeLookup ==
    fn = "determine_expected_error_range" =>
        LET band == args.confidence["overall_confidence"]
        IN /\ band = "high" =>
                 (ret["rmsd_min"] = Float(500) /\ ret["rmsd_max"] = Float(2000))
           /\ band = "medium" =>
                 (ret["rmsd_min"] = Float(1500) /\ ret["rmsd_max"] = Float(4000))
           /\ band = "low" =>
                 (ret["rmsd_min"] = Float(3000) /\ ret["rmsd_max"] = Float(8000))
           /\ ret["rationale"] # None
           /\ ret["rationale"].type = "str"
           /\ 0 <= ret["rmsd_min"].val
           /\ ret["rmsd_min"].val <= ret["rmsd_max"].val
           /\ \A c \in Confidences :
                 c["overall_confidence"] = band => determine_expected_error_range(c) = ret

\* the medium band, reached from a record whose two signal bands differ
C6_Witness ==
    /\ fn = "determine_expected_error_range"
    /\ args.confidence["overall_confidence"] = "medium"
    /\ args.confidence["plddt_bin"] = "high"
    /\ args.confidence["pae_bin"] = "medium"
    /\ ret["rmsd_max"] = Float(4000)

\* the validation rule of the SAR builder, as the specification states it
FailsValidationRule(sar) ==
    \/ \E field \in {"decision_gate", "expected_error_range", "recommended_action"} :
          field \notin DOMAIN sar \/ sar[field] = None
    \/ /\ "expected_error_range" \in DOMAIN sar
       /\ sar["expected_error_range"] # None
       /\ \E subfield \in {"rmsd_min", "rmsd_max", "rationale"} :
             \/ subfield \notin DOMAIN sar["expected_error_range"]
             \/ sar["expected_error_range"][subfield] = None
    \/ /\ "decision_gate" \in DOMAIN sar
       /\ sar["decision_gate"] # None
       /\ sar["decision_gate"] \notin {Str("ACCEPT"), Str("REVIEW"), Str("REJECT")}

\* C7: in strict mode validate_sar raises an ERROR_SAR_INCOMPLETE error
\* exactly when the record fails the validation rule, and returns otherwise.
C7_StrictValidation ==
    (fn = "validate_sar" /\ args.strict_mode) =>
        IF FailsValidationRule(args.sar)
        THEN /\ ret.exception # None
             /\ ret.exception.type = "SARValidationError"
             /\ Head(ret.exception.msg) = "ERROR_SAR_INCOMPLETE: Missing required fields: "
        ELSE ret.exception = None

\* a record complete but for decision_gate = "MAYBE" is refused
C7_Witness ==
    /\ fn = "validate_sar"
    /\ args.strict_mode
    /\ "decision_gate" \in DOMAIN args.sar
    /\ args.sar["decision_gate"] = Str("MAYBE")
    /\ ~MissingOrNone(args.sar, "recommended_action")
    /\ ~MissingOrNone(args.sar, "expected_error_range")
    /\ \A subfield \in {"rmsd_min", "rmsd_max", "rationale"} :
          ~MissingOrNone(args.sar["expected_error_range"], subfield)
    /\ ret.exception # None

\* C8: every SAR generate_sar returns passes the validation rule: its
\* decision_gate is one of ACCEPT, REVIEW, REJECT, its expected_error_range has
\* rmsd_min, rmsd_max and rationale, its recommended_action is set; validate_sar
\* in strict mode accepts it.
C8_BuiltSarIsValid ==
    (fn = "generate_sar" /\ ret.exception = None) =>
        /\ ~FailsValidationRule(ret.sar)
        /\ validate_sar(ret.sar, TRUE).exception = None

\* a SAR with gate REVIEW was built
C8_Witness ==
    /\ fn = "generate_sar"
    /\ ret.exception = None
    /\ ret.sar["decision_gate"] = Str("REVIEW")
    /\ ret.sar["failure_taxonomy"]["class"] = "Unknown"

C10_Halted ==
    (strict_mode /\ validation_errors # <<>>) =>
        /\ pc = "exit1"
        /\ Len(validation_errors) = 1
        /\ idx >= 1
        /\ validation_errors[1].pdb_id = targets[idx]["pdb_id"]
        /\ stdout = [k \in 1..idx |-> targets[k]["pdb_id"]]
        /\ success_count = idx - 1
        /\ \A k \in idx..Len(targets) : targets[k]["pdb_id"] \notin DOMAIN sar_files
        /\ \A k \in 1..(idx - 1) : targets[k]["pdb_id"] \in DOMAIN sar_files

C10_FilesKept ==
    \A f \in DOMAIN sar_files : f \in DOMAIN sar_files' /\ sar_files'[f] = sar_files[f]

C10_StrictHalts == []C10_Halted /\ [][C10_FilesKept]_vars

\* the first of two targets failed in strict mode; the second was not evaluated
C10_Witness ==
    /\ strict_mode
    /\ pc = "exit1"
    /\ validation_errors # <<>>
    /\ idx = 1
    /\ Len(targets) = 2

\* the (gate, class) pairs that classify_failure followed by
\* determine_decision_gate produce on the same inputs
ReachablePairs ==
    UNION {{LET class == classify_failure(rmsd_global, rmsd_ligand, plddt_mean, pae_mean,
                                          expected_range, ligand_present)["class"]
            IN <<determine_decision_gate(rmsd_global, expected_range, class,
                                         [overall_confidence |-> "medium"]), class>> :
               rmsd_ligand \in LigandValues(rmsd_global), plddt_mean \in PlddtEdge,
               pae_mean \in PaeEdge, expected_range \in Ranges,
               ligand_present \in BOOLEAN} : rmsd_global \in RmsdValues}

\* C17: generate_recommended_action returns a text for every (gate, class)
\* pair that classification and gating produce together: ACCEPT gives the
\* proceed message; REVIEW the ligand-geometry message for Class B and the
\* expert-review message for Unknown; REJECT the distrust-confidence message
\* for Class A, the symmetry message for Class C and the generic
\* threshold-exceeded message for Class B and Unknown.  No other pair is
\* produced.
C17_ActionTotal ==
    /\ ReachablePairs = {<<"ACCEPT", "N/A">>, <<"REVIEW", "Class B">>,
                         <<"REVIEW", "Unknown">>, <<"REJECT", "Class A">>,
                         <<"REJECT", "Class C">>, <<"REJECT", "Class B">>,
                         <<"REJECT", "Unknown">>}
    /\ (/\ fn = "generate_recommended_action"
        /\ <<args.decision_gate, args.failure_taxonomy["class"]>> \in ReachablePairs) =>
           LET gate == args.decision_gate
               class == args.failure_taxonomy["class"]
               id == args.pdb_id
           IN /\ ret # None
              /\ ret # <<>>
              /\ gate = "ACCEPT" =>
                    ret = <<"Structure ", id, " passes quality criteria. Proceed with downstream analysis.">>
              /\ (gate = "REVIEW" /\ class = "Class B") =>
                    ret = <<"Manual review recommended for ", id, ": Ligand binding pose shows elevated error. Verify active site geometry and ligand interactions.">>
              /\ (gate = "REVIEW" /\ class = "Unknown") =>
                    ret = <<"Manual review required for ", id, ": Elevated error detected but failure mode unclear. Expert structural analysis needed.">>
              /\ (gate = "REJECT" /\ class = "Class A") =>
                    ret = <<"Reject ", id, ": Overconfidence artifact detected. Model confidence metrics unreliable for this target. Consider alternative modeling approaches.">>
              /\ (gate = "REJECT" /\ class = "Class C") =>
                    ret = <<"Reject ", id, ": Potential symmetry/assembly failure. Verify oligomeric state and symmetry operators before use.">>
              /\ (gate = "REJECT" /\ class \in {"Class B", "Unknown"}) =>
                    ret = <<"Reject ", id, ": Error exceeds acceptable thresholds. Do not use for downstream analysis without significant refinement.">>

\* a rejected Unknown failure gets the generic message, a reviewed one the
\* expert-review message
C17_Witness ==
    /\ fn = "generate_recommended_action"
    /\ args.decision_gate = "REVIEW"
    /\ args.failure_taxonomy["class"] = "Unknown"
    /\ ret[1] = "Manual review required for "

\* C19: in every SAR generate_sar builds the gate and the class agree: the
\* gate is ACCEPT if and only if the class is N/A, Class A and Class C always
\* have gate REJECT, and gate REVIEW comes only with Class B or Unknown, so
\* the recommended action is never the description-based review message.
C19_GateMatchesClass ==
    (fn = "generate_sar" /\ ret.exception = None) =>
        LET gate == ret.sar["decision_gate"]
            taxonomy == ret.sar["failure_taxonomy"]
        IN /\ gate = Str("ACCEPT") <=> taxonomy["class"] = "N/A"
           /\ taxonomy["class"] \in {"Class A", "Class C"} => gate = Str("REJECT")
           /\ gate = Str("REVIEW") => taxonomy["class"] \in {"Class B", "Unknown"}
           /\ ret.sar["recommended_action"] #
                 Str(<<"Manual review recommended for ", ret.sar["pdb_id"], ": ">>
                     \o taxonomy["description"])

\* an overconfident prediction between 1.5 times and twice the upper bound is
\* rejected for its class alone
C19_Witness ==
    /\ fn = "generate_sar"
    /\ ret.exception = None
    /\ ret.sar["failure_taxonomy"]["class"] = "Class A"
    /\ ret.sar["decision_gate"] = Str("REJECT")
    /\ ret.sar["metrics"]["rmsd_global"] <= 2 * UpperBound(ret.sar["expected_error_range"])

\* C20: every SAR generate_sar builds agrees with the values it records: the
\* decision rule applied to the recorded metrics.rmsd_global and the recorded
\* expected_error_range.rmsd_max gives the recorded decision_gate, and the
\* recorded gate is ACCEPT if and only if the recorded rmsd_global is at most
\* the recorded rmsd_max.
C20_RecordedValuesAgree ==
    (fn = "generate_sar" /\ ret.exception = None) =>
        LET recorded == ret.sar["metrics"]["rmsd_global"]
            range == ret.sar["expected_error_range"]
        IN /\ Str(determine_decision_gate(recorded, range,
                                          ret.sar["failure_taxonomy"]["class"],
                                          ret.sar["confidence_assessment"]))
                = ret.sar["decision_gate"]
           /\ ret.sar["decision_gate"] = Str("ACCEPT") <=> recorded <= UpperBound(range)

\* a deviation of 2.004 against the bound 2.0 is recorded as 2.0 with gate REVIEW
C20_Witness ==
    /\ fn = "generate_sar"
    /\ ret.exception = None
    /\ ret.sar["metrics"]["rmsd_global"] = 2000
    /\ UpperBound(ret.sar["expected_error_range"]) = 2000
    /\ ret.sar["decision_gate"] = Str("REVIEW")
    /\ ret.sar["failure_taxonomy"]["class"] = "Unknown"

\* C16: validate_sar_validity accepts a list of SARs only if every SAR in it
\* passes validate_sar in strict mode, a SAR whose expected_error_range lacks
\* rmsd_min, rmsd_max or rationale included.
C16_ValidityRefinesValidateSar ==
    (fn = "validate_sar_validity" /\ ret.result) =>
        \A k \in 1..Len(args.sars) : validate_sar(args.sars[k], TRUE).exception = None

\* a list whose second SAR has a range without rmsd_max is accepted
C16_Witness ==
    /\ fn = "validate_sar_validity"
    /\ Len(args.sars) = 2
    /\ "rmsd_max" \notin DOMAIN args.sars[2]["expected_error_range"]
    /\ validate_sar(args.sars[1], TRUE).exception = None
    /\ ret.result

\* the bands that hold at least one of the SARs
PopulatedBands(sars) ==
    {band \in Bands : \E k \in 1..Len(sars) :
        sars[k]["confidence_assessment"]["overall_confidence"] = band}

\* C13: generate_calibration_report returns true if and only if each of the
\* three bands holds a SAR; the reported count of populated bands is the
\* number of entries of the calibration data, which has an entry for exactly
\* the bands that hold a SAR.
C13_CalibrationPass ==
    (fn = "generate_calibration_report" /\ ret.exception = None) =>
        LET report == ret.calibration_report
        IN /\ ret.result <=> PopulatedBands(args.sars) = Bands
           /\ report.confidence_bins = Cardinality(DOMAIN report.calibration_data)
           /\ DOMAIN report.calibration_data = PopulatedBands(args.sars)

\* three SARs, one per band, pass with three entries
C13_Witness ==
    /\ fn = "generate_calibration_report"
    /\ Len(args.sars) = 3
    /\ PopulatedBands(args.sars) = Bands
    /\ ret.result = TRUE
    /\ ret.calibration_report.confidence_bins = 3
    /\ DOMAIN ret.calibration_report.calibration_data = Bands

\* three SARs of one band fail with one entry
C13_WitnessOneBand ==
    /\ fn = "generate_calibration_report"
    /\ Len(args.sars) = 3
    /\ PopulatedBands(args.sars) = {"medium"}
    /\ ret.result = FALSE
    /\ ret.calibration_report.confidence_bins = 1
    /\ DOMAIN ret.calibration_report.calibration_data = {"medium"}

ReportFiles == {"SAR_SUMMARY.md", "calibration_report.json", "execution_provenance.json"}

\* the manifest's targets that have no SAR file
MissingTargets(manifest, sar_dir) ==
    {k \in 1..Len(manifest["targets"]) : manifest["targets"][k]["pdb_id"] \notin DOMAIN sar_dir}

\* C15: when a target of the manifest has no SAR, compile_reports ends with a
\* failure status and has written none of the summary, the calibration report
\* and the provenance file; a report is written only when every target of the
\* manifest has a SAR.
C15_IncompleteIsFatal ==
    fn = "compile_reports.main" =>
        /\ MissingTargets(args.manifest, args.sar_dir) # {} =>
              /\ ret.exit_code # 0
              /\ DOMAIN ret.written = {}
        /\ DOMAIN ret.written # {} => MissingTargets(args.manifest, args.sar_dir) = {}

\* the last of three targets has no SAR, the other two have valid ones of
\* different bands
C15_Witness ==
    /\ fn = "compile_reports.main"
    /\ Len(args.manifest["targets"]) = 3
    /\ MissingTargets(args.manifest, args.sar_dir) = {3}
    /\ validate_sar_validity(load_sars(args.sar_dir, args.manifest).sars).result
    /\ ret.exit_code = 1
    /\ ret.stderr[1] = "ERROR: Missing SARs for targets: "
    /\ DOMAIN ret.written = {}

\* a run of compile_reports that got through its checks and found fewer than
\* three populated bands
FewBands ==
    /\ fn = "compile_reports.main"
    /\ ret.exception = None
    /\ "calibration_report.json" \in DOMAIN ret.written
    /\ ret.written["calibration_report.json"].confidence_bins < 3

\* in such a run the three reports are written, the statistics of each
\* populated band are those of the band's SARs alone, and no SAR file is
\* rewritten
C14_ReportsStillProduced ==
    FewBands =>
        LET sars == load_sars(args.sar_dir, args.manifest).sars
            data == ret.written["calibration_report.json"].calibration_data
        IN /\ DOMAIN ret.written = ReportFiles
           /\ ret.written["SAR_SUMMARY.md"] = generate_summary(sars).summary
           /\ \A band \in DOMAIN data :
                 LET members == SelectSeq(sars, LAMBDA sar :
                        sar["confidence_assessment"]["overall_confidence"] = band)
                 IN data[band] =
                       generate_calibration_report(members).calibration_report
                           .calibration_data[band]
           /\ DOMAIN ret.written \cap DOMAIN args.sar_dir = {}
           /\ validate_sar_validity(sars).result

\* the exit status of a run that fails the completeness check
HardFailureStatus ==
    compile_reports_main(args.manifest, [name \in {} |-> None], args.hash_match).exit_code

\* C14: fewer than three populated bands is a warning, not a hard error: the
\* summary, the calibration report and the provenance file are written with
\* the same statistics per band, no SAR is invalidated, and the exit status of
\* the run differs from the one of a completeness or validity failure.
C14_WarningNotFatal ==
    /\ C14_ReportsStillProduced
    /\ FewBands => ret.exit_code # HardFailureStatus

\* two valid SARs of two bands: the reports are written and the status is 1
C14_Witness ==
    /\ FewBands
    /\ Len(args.manifest["targets"]) = 2
    /\ ret.written["calibration_report.json"].confidence_bins = 2
    /\ DOMAIN ret.written = ReportFiles
    /\ ret.stdout = <<"WARNING: Calibration has fewer than 3 confidence bins">>
    /\ ret.exit_code = 1

\* the SARs generate_sar can return on the same target, prediction and ground
\* truth, over the values the random generator may draw
SarsOnSameInputs ==
    {generate_sar(args.target, args.prediction, args.ground_truth,
                  u_rmsd, u_ligand, u_contact).sar :
        u_rmsd \in URmsd, u_ligand \in ULigand, u_contact \in UContact}

\* with a ground truth given, the class, the gate and the recommended action
\* do not depend on the draws
C18_DecisionWithGroundTruth ==
    (fn = "generate_sar" /\ ret.exception = None /\ args.ground_truth # None) =>
        \A other \in SarsOnSameInputs :
            /\ other["failure_taxonomy"] = ret.sar["failure_taxonomy"]
            /\ other["decision_gate"] = ret.sar["decision_gate"]
            /\ other["recommended_action"] = ret.sar["recommended_action"]

\* C18: the SAR built for a target (its metrics, its failure class, its
\* decision gate and its recommended action) is a function of the target, its
\* prediction and its ground truth alone: building it again on the same
\* inputs, whatever was evaluated in between, gives the same SAR.
C18_SarIsFunctionOfInputs ==
    (fn = "generate_sar" /\ ret.exception = None) =>
        \A other \in SarsOnSameInputs :
            /\ other["metrics"] = ret.sar["metrics"]
            /\ other["failure_taxonomy"]["class"] = ret.sar["failure_taxonomy"]["class"]
            /\ other["decision_gate"] = ret.sar["decision_gate"]
            /\ other["recommended_action"] = ret.sar["recommended_action"]

\* without ground truth a medium-confidence prediction was sent to review,
\* and the same call can accept it
C18_Witness ==
    /\ fn = "generate_sar"
    /\ ret.exception = None
    /\ args.ground_truth = None
    /\ ret.sar["decision_gate"] = Str("REVIEW")
    /\ \E other \in SarsOnSameInputs : other["decision_gate"] = Str("ACCEPT")

\* the pdb_ids of the first n targets of the manifest, in order
FirstIds(n) == [k \in 1..n |-> targets[k]["pdb_id"]]

\* the SAR generator has started the first idx targets, in manifest order,
\* and holds SAR files of these only; it ends normally after the last one
C12_SarGeneratorOrder ==
    pc # "off" =>
        /\ idx <= Len(targets)
        /\ stdout = FirstIds(idx)
        /\ DOMAIN sar_files \subseteq Range(FirstIds(idx))
        /\ pc = "exit0" => idx = Len(targets)

\* the execution log of the inference runner has one entry per target
\* processed, in manifest order, and the prediction files are those of the
\* entries with status success; the run ends after the last target
C12_InferenceOrder ==
    inference_pc # "off" =>
        /\ inference_i <= Len(targets)
        /\ [k \in 1..Len(execution_log) |-> execution_log[k].pdb_id] = FirstIds(inference_i)
        /\ DOMAIN output_dir \ {"execution_provenance.json"}
              = {execution_log[k].pdb_id : k \in {j \in 1..Len(execution_log) :
                                                     execution_log[j].status = "success"}}
        /\ inference_pc \in {"exit0", "exit1"} =>
              /\ inference_i = Len(targets)
              /\ output_dir["execution_provenance.json"].execution_log = execution_log

\* a step moves to the next target only, and leaves the outputs of the
\* targets before it as they are
C12_Step ==
    /\ idx' \in {idx, idx + 1}
    /\ \A id \in DOMAIN sar_files : id \in DOMAIN sar_files' /\ sar_files'[id] = sar_files[id]
    /\ SubSeq(stdout', 1, Len(stdout)) = stdout
    /\ inference_i' \in {inference_i, inference_i + 1}
    /\ \A id \in DOMAIN output_dir : id \in DOMAIN output_dir' /\ output_dir'[id] = output_dir[id]
    /\ SubSeq(execution_log', 1, Len(execution_log)) = execution_log

\* C12: in the inference runner and in the SAR generator the targets are
\* processed one at a time in the order of the manifest: the output of a
\* target (prediction file, SAR file, log entry) exists before the next one
\* is started, no target is processed twice or skipped while the run goes on,
\* and the execution log has one entry per processed target in manifest order.
C12_ManifestOrder ==
    /\ [](C12_SarGeneratorOrder /\ C12_InferenceOrder)
    /\ [][C12_Step]_vars

\* the inference runner ended on two targets, the first written, the second
\* failed
C12_Witness ==
    /\ inference_pc = "exit1"
    /\ Len(targets) = 2
    /\ execution_log[1].status = "success"
    /\ execution_log[2].status = "error"
    /\ DOMAIN output_dir = {targets[1]["pdb_id"], "execution_provenance.json"}

\* what one lenient iteration of the SAR generator can give for a target of
\* the accepted manifest, whatever the run did before
LenientOutcomes ==
    [k \in 1..Len(AcceptedTargets) |->
        UNION {{loop_body(AcceptedTargets[k], pred_file, gt_file, rand_coords,
                          0, u_ligand, u_contact, FALSE) :
                   rand_coords \in IF gt_file = None THEN BatchRandCoords ELSE {<<>>},
                   pred_file \in {None} \cup BatchPredictions \cup BatchMalformed,
                   u_ligand \in ULigand, u_contact \in UContact} :
               gt_file \in {None} \cup BatchGroundTruths}]

\* what process_target can log for a target of the accepted manifest
InferenceOutcomes ==
    [k \in 1..Len(AcceptedTargets) |->
        {process_target(AcceptedTargets[k], 42, 3, draws, write_ok, <<>>) :
            draws \in StubDraws, write_ok \in BOOLEAN}]

\* what happened to the target processed by a step of the SAR generator
StepOutcome ==
    LET pdb_id == targets[idx']["pdb_id"]
    IN [sar_file |-> IF pdb_id \in DOMAIN sar_files' THEN sar_files'[pdb_id] ELSE None,
        success |-> success_count' - success_count,
        error |-> IF Len(validation_errors') > Len(validation_errors)
                  THEN validation_errors'[Len(validation_errors')] ELSE None,
        exit |-> pc' = "exit1"]

\* in lenient mode the run does not stop before the last target, whatever
\* failed before; the inference runner never does
C11_EveryTargetAttempted ==
    /\ (pc # "off" /\ ~strict_mode) =>
          /\ pc # "exit1"
          /\ pc = "exit0" => stdout = FirstIds(Len(targets))
    /\ inference_pc \in {"exit0", "exit1"} => Len(execution_log) = Len(targets)

\* the outcome of a target is one it has on its own, whatever happened to
\* the targets before it
C11_OutcomeOfItsOwn ==
    /\ (idx' = idx + 1 /\ ~strict_mode) =>
          StepOutcome \in LenientOutcomes[IdRank(targets[idx']["pdb_id"])]
    /\ inference_i' = inference_i + 1 =>
          \E out \in InferenceOutcomes[IdRank(targets[inference_i']["pdb_id"])] :
              /\ execution_log' = execution_log \o out.execution_log
              /\ inference_success_count' - inference_success_count
                    = (IF out.ok THEN 1 ELSE 0)
              /\ out.ok => output_dir'[targets[inference_i']["pdb_id"]] = out.output_file

BandCount(sars, conf_level) ==
    Cardinality({k \in 1..Len(sars) :
        sars[k]["confidence_assessment"]["overall_confidence"] = conf_level})

\* the n_samples of the reported bands, summed
ReportedSamples(calibration_report) ==
    LET data == calibration_report.calibration_data
        n(conf_level) == IF conf_level \in DOMAIN data THEN data[conf_level].n_samples
                         ELSE 0
    IN n("high") + n("medium") + n("low")

\* C21: a calibration report counts every SAR in exactly one band, the band
\* named by its overall_confidence: each reported band has as many samples as
\* there are SARs of that band, a band without SARs is not reported, the
\* samples sum to total_targets, which is the number of SARs given, and
\* computing the report again from the same SARs gives the same report.
C21_EverySarInOneBand ==
    (fn = "generate_calibration_report" /\ ret.exception = None) =>
        LET report == ret.calibration_report
        IN /\ \A k \in 1..Len(args.sars) :
                  args.sars[k]["confidence_assessment"]["overall_confidence"]
                      \in DOMAIN report.calibration_data
           /\ \A conf_level \in DOMAIN report.calibration_data :
                  /\ BandCount(args.sars, conf_level) > 0
                  /\ report.calibration_data[conf_level].n_samples
                         = BandCount(args.sars, conf_level)
           /\ ReportedSamples(report) = report.total_targets
           /\ report.total_targets = Len(args.sars)
           /\ generate_calibration_report(args.sars).calibration_report = report

\* three SARs were given, two of one band and one of another
C21_Witness ==
    /\ fn = "generate_calibration_report"
    /\ ret.exception = None
    /\ Len(args.sars) = 3
    /\ BandCount(args.sars, "medium") = 2
    /\ BandCount(args.sars, "low") = 1
    /\ ret.calibration_report.calibration_data["medium"].n_samples = 2

\* the run loaded a SAR of every target and both checks passed
ChecksPassed ==
    /\ fn = "compile_reports.main"
    /\ LET loaded == load_sars(args.sar_dir, args.manifest)
       IN /\ loaded.missing = <<>>
          /\ validate_completeness(loaded.sars, args.manifest)
          /\ validate_sar_validity(loaded.sars).result

\* C22: whenever the loaded SARs pass validate_completeness and
\* validate_sar_validity, report generation ends without an unhandled
\* exception and has written the summary, the calibration report and the
\* provenance file; a manifest with zero targets and SARs whose
\* overall_confidence, failure_taxonomy or metrics are missing or unexpected
\* included.
C22_ReportsAfterPassedChecks ==
    ChecksPassed =>
        /\ ret.exception = None
        /\ DOMAIN ret.written = ReportFiles

\* a manifest with zero targets passes both checks and the run ends in the
\* ZeroDivisionError of generate_summary with no report written
C22_Witness ==
    /\ ChecksPassed
    /\ args.manifest["targets"] = <<>>
    /\ ret.exception # None
    /\ ret.exception.type = "ZeroDivisionError"
    /\ ret.written = <<>>

\* a SAR with an overall_confidence that is none of the bands passes both
\* checks and the run ends in the KeyError of generate_calibration_report,
\* after the summary was written and before the other two reports
C22_WitnessUnexpectedBand ==
    /\ ChecksPassed
    /\ ret.exception = KeyError("very_high")
    /\ DOMAIN ret.written = {"SAR_SUMMARY.md"}

\* a SAR without failure_taxonomy or without metrics passes both checks and
\* the run ends in the KeyError of generate_summary with no report written
C22_WitnessMissingKey ==
    /\ ChecksPassed
    /\ ret.exception \in {KeyError("failure_taxonomy"), KeyError("metrics")}
    /\ ret.written = <<>>

\* the targets the batch loop has accounted for
Accounted == success_count + Len(validation_errors)

\* an iteration of the batch loop counts its target once, as a success or as
\* an error, and counts a success only with the target's SAR file written in
\* that iteration
C23_Iteration ==
    (idx' # idx) =>
        /\ idx' = idx + 1
        /\ \/ /\ success_count' = success_count + 1
              /\ validation_errors' = validation_errors
              /\ targets[idx']["pdb_id"] \notin DOMAIN sar_files
              /\ targets[idx']["pdb_id"] \in DOMAIN sar_files'
           \/ /\ success_count' = success_count
              /\ Len(validation_errors') = Len(validation_errors) + 1
              /\ validation_errors'[Len(validation_errors')]["pdb_id"]
                     = targets[idx']["pdb_id"]

\* C23: the batch loop of the SAR generator accounts for every target exactly
\* once: after each iteration that does not exit, success count plus recorded
\* errors is the number of targets processed so far; a target is counted as a
\* success only after its SAR file has been written; and a lenient run that
\* reaches the end has success count + recorded errors = number of manifest
\* targets.
C23_EveryTargetAccounted ==
    /\ [](pc # "exit1" => Accounted = idx)
    /\ []((pc = "exit0" /\ ~strict_mode) => Accounted = Len(targets))
    /\ [](success_count <= Cardinality(DOMAIN sar_files))
    /\ [][C23_Iteration]_vars

\* a lenient run over two targets ended with one success, whose file is
\* written, and one recorded error
C23_Witness ==
    /\ pc = "exit0"
    /\ ~strict_mode
    /\ Len(targets) = 2
    /\ success_count = 1
    /\ Len(validation_errors) = 1
    /\ Cardinality(DOMAIN sar_files) = 1

====
